---- MODULE Spec2Model ----
(***************************************************************************)
(* Airport API service: flight scheduling and ticket booking.              *)
(*                                                                         *)
(* The stored state is the set of Flight, Order and Ticket rows.  Times    *)
(* are whole hours.  A create request is modelled as one atomic step that  *)
(* runs the serializer validation, then Model.save() (full_clean followed  *)
(* by the insert), and records the HTTP outcome in `response`.             *)
(***************************************************************************)
EXTENDS Integers, FiniteSets, Sequences, TLC

VARIABLES
    routes,     \* Route rows: [id, source, destination, distance]
    flights,    \* Flight rows: [id, route, airplane, departure_time, arrival_time]
    orders,     \* Order rows: [id, created_at, user]
    tickets,    \* Ticket rows: [id, row, seat, flight, order]
    now,        \* timezone.now(), in hours
    response,   \* outcome of the last request served: [status, error, items]
    calls,      \* requests served concurrently, in the order they arrived
    records,    \* Airport, Crew, AirplaneType and Airplane rows: [id, name]
    sequence    \* the last primary key given to a row of each of them

vars ==
    <<routes, flights, orders, tickets, now, response, calls, records, sequence>>

----------------------------------------------------------------------------
(* Bounds of the model *)

\* Flight rows the model stores at most.
MaxFlights == 2
\* Order rows the model stores at most.
MaxOrders == 2
\* The last hour the clock reaches.
MaxNow == 1
\* Requests served concurrently at most.
MaxCalls == 2
\* Rows added to one named resource at most.
MaxRecords == 1

(* Program constants *)

\* timedelta(hours=3): rest of an airplane after its previous flight.
REST_HOURS == 3
\* timedelta(hours=24): longest idle gap between consecutive flights.
MAX_GAP_HOURS == 24

----------------------------------------------------------------------------
(* Reference data *)

\* An error-free outcome of a validator.
OK == "ok"
\* An HTTP outcome: the status, the key or code of the error, and for an error
\* in a list of nested items the error of each item.
Response(status, error) == [status |-> status, error |-> error, items |-> << >>]
ItemsResponse(status, error, items) ==
    [status |-> status, error |-> error, items |-> items]
\* Python's None, for an Order row.
NoOrder == [id |-> 0, created_at |-> 0, user |-> ""]
\* Python's None, for a Flight row and for a datetime.
NoFlight ==
    [id |-> 0, route |-> 0, airplane |-> 0, departure_time |-> 0,
     arrival_time |-> 0]
NoTime == 0 - 1

\* Airplane rows, keyed by id: rows and seats_in_row are IntegerFields.
Airplanes == {1, 2}
airplane_rows == [a \in Airplanes |-> IF a = 1 THEN 2 ELSE 1]
airplane_seats_in_row == [a \in Airplanes |-> IF a = 1 THEN 1 ELSE 2]

\* Airplane.capacity
capacity(a) == airplane_rows[a] * airplane_seats_in_row[a]

\* The routes KRK - PMI and PMI - KRK, as the tests create them.
SampleRoutes ==
    { [id |-> 1, source |-> "KRK", destination |-> "PMI", distance |-> 1000],
      [id |-> 2, source |-> "PMI", destination |-> "KRK", distance |-> 1000] }

\* The resources that are stored as a name under a primary key, and the rows
\* the sample data holds of each.
NamedResources == {"Airport", "Crew", "AirplaneType", "Airplane"}
SampleRecords ==
    [view \in NamedResources |->
        CASE view = "Airport" ->
               {[id |-> 1, name |-> "KRK"], [id |-> 2, name |-> "PMI"]}
          [] view = "Crew" -> {}
          [] view = "AirplaneType" -> {[id |-> 1, name |-> "Boeing"]}
          [] view = "Airplane" ->
               {[id |-> a, name |-> IF a = 1 THEN "BO1234" ELSE "BO5678"] :
                   a \in Airplanes}]
\* The AutoField sequence of each of them after the sample data.
SampleSequence ==
    [view \in NamedResources |-> Cardinality(SampleRecords[view])]

\* Whether the ModelSerializer derives a UniqueTogetherValidator from the
\* UniqueConstraint of its model: the installed rest_framework decides it, and
\* the repository pins none.
GeneratedValidators == BOOLEAN

\* The row and seat numbers a ticket request may carry: one below the range,
\* and up to the 2 rows of airplane 1 and the 2 seats in a row of airplane 2,
\* which lie above the 1 row of airplane 2 and the 1 seat of airplane 1.
SeatNumbers == 0 .. 2

\* The numbers of tickets a create-order request may carry.
OrderSizes == 0 .. 2

\* The departure times a create-flight request may carry: hours 0 and 1, the
\* hours at which the rest and the idle gap of an arrival at hour 1 end, and
\* the hour after.
DepartureTimes ==
    { 0, 1,
      1 + REST_HOURS,
      1 + MAX_GAP_HOURS, 2 + MAX_GAP_HOURS }

\* The arrival times a create-flight request may carry: hour 1, two hours
\* with a departure time 21 and 1 hours after them, and an hour after every
\* departure time.
ArrivalTimes ==
    { 1,
      1 + REST_HOURS,
      1 + MAX_GAP_HOURS,
      2 + MAX_GAP_HOURS + REST_HOURS }

\* The Route row with primary key rid.
RouteById(rid) == CHOOSE r \in routes : r.id = rid

----------------------------------------------------------------------------
(* Flight scheduling rules (airport/models.py) *)

\* validate_flight_time with "departure_time > arrival_time" as its first test.
validate_flight_time_gt(departure_time, arrival_time, previous_arrival_time) ==
    IF departure_time > arrival_time
    THEN "time_order"
    ELSE IF previous_arrival_time # NoTime
         THEN IF departure_time < previous_arrival_time
              THEN "before_previous"
              ELSE IF departure_time < previous_arrival_time + REST_HOURS
                   THEN "rest"
                   ELSE IF departure_time - previous_arrival_time > MAX_GAP_HOURS
                        THEN "max_gap"
                        ELSE OK
         ELSE OK

\* validate_flight_time with "<=" in the rest test.
validate_flight_time_rest_le(departure_time, arrival_time, previous_arrival_time) ==
    IF departure_time >= arrival_time
    THEN "time_order"
    ELSE IF previous_arrival_time # NoTime
         THEN IF departure_time < previous_arrival_time
              THEN "before_previous"
              ELSE IF departure_time <= previous_arrival_time + REST_HOURS
                   THEN "rest"
                   ELSE IF departure_time - previous_arrival_time > MAX_GAP_HOURS
                        THEN "max_gap"
                        ELSE OK
         ELSE OK

\* validate_flight_time with ">=" in the idle-gap test.
validate_flight_time_gap_ge(departure_time, arrival_time, previous_arrival_time) ==
    IF departure_time >= arrival_time
    THEN "time_order"
    ELSE IF previous_arrival_time # NoTime
         THEN IF departure_time < previous_arrival_time
              THEN "before_previous"
              ELSE IF departure_time < previous_arrival_time + REST_HOURS
                   THEN "rest"
                   ELSE IF departure_time - previous_arrival_time >= MAX_GAP_HOURS
                        THEN "max_gap"
                        ELSE OK
         ELSE OK

\* validate_flight_time letting a departure before the previous arrival pass.
validate_flight_time_earlier_ok(departure_time, arrival_time, previous_arrival_time) ==
    IF departure_time >= arrival_time
    THEN "time_order"
    ELSE IF previous_arrival_time # NoTime
            /\ departure_time >= previous_arrival_time
         THEN IF departure_time < previous_arrival_time + REST_HOURS
              THEN "rest"
              ELSE IF departure_time - previous_arrival_time > MAX_GAP_HOURS
                   THEN "max_gap"
                   ELSE OK
         ELSE OK

\* validate_flight_time comparing with the previous arrival less a day.
validate_flight_time_day_before(departure_time, arrival_time, previous_arrival_time) ==
    IF departure_time >= arrival_time
    THEN "time_order"
    ELSE IF previous_arrival_time # NoTime
         THEN IF departure_time < previous_arrival_time - MAX_GAP_HOURS
              THEN "before_previous"
              ELSE OK
         ELSE OK

\* validate_flight_time without the check of the idle gap.
validate_flight_time_no_gap(departure_time, arrival_time, previous_arrival_time) ==
    IF departure_time >= arrival_time
    THEN "time_order"
    ELSE IF previous_arrival_time # NoTime
         THEN IF departure_time < previous_arrival_time
              THEN "before_previous"
              ELSE IF departure_time < previous_arrival_time + REST_HOURS
                   THEN "rest"
                   ELSE OK
         ELSE OK

\* Flight.validate_flight_time: the error raised, or OK.
validate_flight_time(departure_time, arrival_time, previous_arrival_time) ==
    IF departure_time >= arrival_time
    THEN "time_order"
    ELSE IF previous_arrival_time # NoTime
         THEN IF departure_time < previous_arrival_time
              THEN "before_previous"
              ELSE IF departure_time < previous_arrival_time + REST_HOURS
                   THEN "rest"
                   ELSE IF departure_time - previous_arrival_time > MAX_GAP_HOURS
                        THEN "max_gap"
                        ELSE OK
         ELSE OK

\* validate_flight_departure_location with the comparison left out.
validate_flight_departure_location_skip(source, previous_destination) == OK

\* Flight.validate_flight_departure_location: the error raised, or OK.  Both
\* branches on available_route_list raise the same error with another text.
validate_flight_departure_location(source, previous_destination) ==
    IF source # previous_destination THEN "continuity" ELSE OK

\* previous_flight without filter(airplane=airplane).
previous_flight_any_airplane(airplane) ==
    IF flights = {}
    THEN {NoFlight}
    ELSE { f \in flights : \A g \in flights : g.arrival_time <= f.arrival_time }

\* previous_flight with order_by('arrival_time'), ascending.
previous_flight_earliest(airplane) ==
    LET own == { f \in flights : f.airplane = airplane }
    IN  IF own = {}
        THEN {NoFlight}
        ELSE { f \in own : \A g \in own : g.arrival_time >= f.arrival_time }

\* Flight.objects.filter(airplane=airplane).order_by('-arrival_time').first():
\* the rows the query may return.  Rows that tie on arrival_time come in an
\* order the database chooses; no row gives None (NoFlight).
previous_flight(airplane) ==
    LET own == { f \in flights : f.airplane = airplane }
    IN  IF own = {}
        THEN {NoFlight}
        ELSE { f \in own : \A g \in own : g.arrival_time <= f.arrival_time }

\* scheduling_checks comparing with the previous route's source.
scheduling_checks_prev_source(route, departure_time, arrival_time, previous) ==
    LET location ==
            IF previous # NoFlight
            THEN validate_flight_departure_location(
                     RouteById(route).source,
                     RouteById(previous.route).source)
            ELSE OK
        previous_arrival_time ==
            IF previous # NoFlight THEN previous.arrival_time ELSE NoTime
    IN  IF location # OK
        THEN location
        ELSE validate_flight_time(departure_time, arrival_time,
                                  previous_arrival_time)

\* scheduling_checks calling validate_flight_time before
\* validate_flight_departure_location.
scheduling_checks_time_first(route, departure_time, arrival_time, previous) ==
    LET location ==
            IF previous # NoFlight
            THEN validate_flight_departure_location(
                     RouteById(route).source,
                     RouteById(previous.route).destination)
            ELSE OK
        previous_arrival_time ==
            IF previous # NoFlight THEN previous.arrival_time ELSE NoTime
        time == validate_flight_time(departure_time, arrival_time,
                                     previous_arrival_time)
    IN  IF time # OK THEN time ELSE location

\* The body of FlightSerializer.validate after its query: continuity against
\* the previous flight first, then the time rules.
scheduling_checks(route, departure_time, arrival_time, previous) ==
    LET location ==
            IF previous # NoFlight
            THEN validate_flight_departure_location(
                     RouteById(route).source,
                     RouteById(previous.route).destination)
            ELSE OK
        previous_arrival_time ==
            IF previous # NoFlight THEN previous.arrival_time ELSE NoTime
    IN  IF location # OK
        THEN location
        ELSE validate_flight_time(departure_time, arrival_time,
                                  previous_arrival_time)

\* FlightSerializer.validate
FlightSerializer_validate(data, previous) ==
    scheduling_checks(data.route, data.departure_time, data.arrival_time,
                      previous)

\* Flight.clean with the time rules before the departure location.
Flight_clean_time_first(data, previous) ==
    LET previous_arrival_time ==
            IF previous # NoFlight THEN previous.arrival_time ELSE NoTime
        time == validate_flight_time(data.departure_time, data.arrival_time,
                                     previous_arrival_time)
    IN  IF time # OK
        THEN time
        ELSE IF previous # NoFlight
        THEN validate_flight_departure_location(
                 RouteById(data.route).source,
                 RouteById(previous.route).destination)
        ELSE OK

\* Flight.clean after its query: with a previous flight, the departure
\* location of self.route against that flight's destination; then the time
\* rules, against its arrival or against None.
Flight_clean(data, previous) ==
    IF previous # NoFlight
    THEN LET location == validate_flight_departure_location(
                             RouteById(data.route).source,
                             RouteById(previous.route).destination)
         IN  IF location # OK
             THEN location
             ELSE validate_flight_time(data.departure_time, data.arrival_time,
                                       previous.arrival_time)
    ELSE validate_flight_time(data.departure_time, data.arrival_time, NoTime)

\* UniqueConstraint(fields=["airplane", "departure_time"], name="unique_flight")
unique_flight(data) ==
    IF \E f \in flights : /\ f.airplane = data.airplane
                          /\ f.departure_time = data.departure_time
    THEN "unique_flight"
    ELSE OK

\* Flight.save: full_clean() runs clean() and then the constraints.
Flight_full_clean(data, previous) ==
    LET error == Flight_clean(data, previous)
    IN  IF error # OK THEN error ELSE unique_flight(data)

\* The payloads of a create-flight request.
FlightData ==
    [route : {r.id : r \in routes}, airplane : Airplanes,
     departure_time : DepartureTimes, arrival_time : ArrivalTimes]

\* The outcome of POST /flights/ with payload data, when the serializer's
\* query returns p1 and the model's query returns p2: 400 for the serializer's
\* rest_framework ValidationError, 500 for the django ValidationError that
\* full_clean() raises inside save(), which no handler catches.  A generated
\* uniqueness validator runs before FlightSerializer.validate.
FlightOutcome(data, generated, p1, p2) ==
    LET invalid == FlightSerializer_validate(data, p1)
        unclean == Flight_full_clean(data, p2)
    IN  IF generated /\ unique_flight(data) # OK
        THEN Response(400, unique_flight(data))
        ELSE IF invalid # OK
        THEN Response(400, invalid)
        ELSE IF unclean # OK
        THEN Response(500, unclean)
        ELSE Response(201, OK)

\* The Flight row an accepted request inserts (AutoField primary key).
NewFlight(data) ==
    [id |-> Cardinality(flights) + 1, route |-> data.route,
     airplane |-> data.airplane, departure_time |-> data.departure_time,
     arrival_time |-> data.arrival_time]

\* Flight.save with the row written over the airplane's earlier rows.
Flight_insert_replace(data) ==
    { f \in flights : f.airplane # data.airplane } \cup {NewFlight(data)}

\* Flight.save, after full_clean(): super().save() inserts the row.
Flight_insert(data) == flights \cup {NewFlight(data)}

\* The INSERT of Flight.save without the index of unique_flight.
Flight_db_insert_no_index(data) == [error |-> OK, flights |-> Flight_insert(data)]

\* The INSERT statement of Flight.save: the database keeps the index of the
\* unique_flight constraint and refuses a row that repeats (airplane,
\* departure_time) with an IntegrityError.
Flight_db_insert(data) ==
    IF unique_flight(data) # OK
    THEN [error |-> "integrity", flights |-> flights]
    ELSE [error |-> OK, flights |-> Flight_insert(data)]

\* The outcomes POST /flights/ with payload data can have in this state.
FlightOutcomes(data) ==
    LET previous == previous_flight(data.airplane)
    IN  { FlightOutcome(data, generated, p1, p2) :
            generated \in GeneratedValidators,
            p1 \in previous, p2 \in previous }

----------------------------------------------------------------------------
(* Ticket and order rules (airport/models.py, airport/serializers.py) *)

\* The Flight row with primary key fid.
FlightById(fid) == CHOOSE f \in flights : f.id = fid

\* validate_ticket_row_seat with "0 <= value" as the lower bound.
validate_ticket_row_seat_from_zero(row, seat, airplane) ==
    IF ~(0 <= row /\ row <= airplane_rows[airplane])
    THEN "row"
    ELSE IF ~(0 <= seat /\ seat <= airplane_seats_in_row[airplane])
         THEN "seat"
         ELSE OK

\* validate_ticket_row_seat with the seat tested from below only.
validate_ticket_row_seat_any_seat(row, seat, airplane) ==
    IF ~(1 <= row /\ row <= airplane_rows[airplane])
    THEN "row"
    ELSE IF ~(1 <= seat) THEN "seat" ELSE OK

\* Ticket.validate_ticket_row_seat: the key of the error raised, or OK.  The
\* loop tests the row first and raises at the first value out of range.
validate_ticket_row_seat(row, seat, airplane) ==
    IF ~(1 <= row /\ row <= airplane_rows[airplane])
    THEN "row"
    ELSE IF ~(1 <= seat /\ seat <= airplane_seats_in_row[airplane])
         THEN "seat"
         ELSE OK

\* validate_ticket_flight with ">=" as its test.
validate_ticket_flight_ge(order_created_at, flight_departure_time) ==
    IF order_created_at >= flight_departure_time THEN "order" ELSE OK

\* Ticket.validate_ticket_flight: the key of the error raised, or OK.
validate_ticket_flight(order_created_at, flight_departure_time) ==
    IF order_created_at > flight_departure_time THEN "order" ELSE OK

\* TicketSerializer.validate
TicketSerializer_validate(attrs) ==
    validate_ticket_row_seat(attrs.row, attrs.seat,
                             FlightById(attrs.flight).airplane)

\* The key of unique_ticket: two rows or items with the same flight, row and
\* seat.
SameSeat(t, u) == t.flight = u.flight /\ t.row = u.row /\ t.seat = u.seat

\* unique_ticket with fields=["row", "seat"].
unique_ticket_any_flight(saved, ticket_data) ==
    IF \E t \in saved : /\ t.row = ticket_data.row
                        /\ t.seat = ticket_data.seat
    THEN "unique_ticket"
    ELSE OK

\* UniqueConstraint(fields=["flight", "row", "seat"], name="unique_ticket"),
\* against the rows stored, those of the running transaction included.
unique_ticket(saved, ticket_data) ==
    IF \E t \in saved : /\ t.flight = ticket_data.flight
                        /\ t.row = ticket_data.row
                        /\ t.seat = ticket_data.seat
    THEN "unique_ticket"
    ELSE OK

\* TicketSerializer(many=True): the nested list validates every item and
\* reports the error of each.  A generated uniqueness validator runs before
\* TicketSerializer.validate, against the rows stored.
tickets_field_errors(tickets_data, generated) ==
    [i \in 1 .. Len(tickets_data) |->
        IF generated /\ unique_ticket(tickets, tickets_data[i]) # OK
        THEN unique_ticket(tickets, tickets_data[i])
        ELSE TicketSerializer_validate(tickets_data[i])]

\* OrderSerializer.validate without the loop over the tickets.
OrderSerializer_validate_skip(tickets_data, created_at) == OK

\* OrderSerializer.validate, for a new order: created_at is timezone.now().
OrderSerializer_validate(tickets_data, created_at) ==
    IF \E i \in 1 .. Len(tickets_data) :
          validate_ticket_flight(
              created_at,
              FlightById(tickets_data[i].flight).departure_time) # OK
    THEN "order"
    ELSE OK

\* Ticket.clean without its call of validate_ticket_flight.
Ticket_clean_seat_only(ticket_data, order_created_at) ==
    validate_ticket_row_seat(ticket_data.row, ticket_data.seat,
                             FlightById(ticket_data.flight).airplane)

\* Ticket.clean
Ticket_clean(ticket_data, order_created_at) ==
    LET seat == validate_ticket_row_seat(
                    ticket_data.row, ticket_data.seat,
                    FlightById(ticket_data.flight).airplane)
    IN  IF seat # OK
        THEN seat
        ELSE validate_ticket_flight(
                 order_created_at,
                 FlightById(ticket_data.flight).departure_time)

\* Ticket.save: full_clean() runs clean() and then the constraints.
Ticket_full_clean(saved, ticket_data, order_created_at) ==
    LET error == Ticket_clean(ticket_data, order_created_at)
    IN  IF error # OK THEN error ELSE unique_ticket(saved, ticket_data)

\* The Ticket row that Ticket.objects.create(order=order, **ticket_data) inserts.
NewTicket(saved, ticket_data, order) ==
    [id |-> Cardinality(saved) + 1, row |-> ticket_data.row,
     seat |-> ticket_data.seat, flight |-> ticket_data.flight,
     order |-> order.id]

\* create_tickets whose saves do not see the rows of the running transaction.
RECURSIVE create_tickets_unseen(_, _, _)
create_tickets_unseen(saved, tickets_data, order) ==
    IF tickets_data = << >>
    THEN [error |-> OK, tickets |-> saved]
    ELSE LET error == Ticket_full_clean(tickets, Head(tickets_data),
                                        order.created_at)
         IN  IF error # OK
             THEN [error |-> error, tickets |-> saved]
             ELSE create_tickets_unseen(
                      saved \cup {NewTicket(saved, Head(tickets_data), order)},
                      Tail(tickets_data), order)

\* The loop of OrderSerializer.create: the tickets are saved one by one, and
\* the first error ends the loop.  Gives the error and the ticket rows then.
RECURSIVE create_tickets(_, _, _)
create_tickets(saved, tickets_data, order) ==
    IF tickets_data = << >>
    THEN [error |-> OK, tickets |-> saved]
    ELSE LET error == Ticket_full_clean(saved, Head(tickets_data),
                                        order.created_at)
         IN  IF error # OK
             THEN [error |-> error, tickets |-> saved]
             ELSE create_tickets(
                      saved \cup {NewTicket(saved, Head(tickets_data), order)},
                      Tail(tickets_data), order)

\* The Order row that Order.objects.create(user=user) inserts: created_at is
\* set by auto_now_add at the insert.
NewOrder(user, created_at) ==
    [id |-> Cardinality(orders) + 1, created_at |-> created_at, user |-> user]

\* OrderSerializer.create without transaction.atomic(): the rows written
\* before the error stay.
OrderSerializer_create_no_atomic(user, tickets_data, created_at) ==
    LET order == NewOrder(user, created_at)
        saved == create_tickets(tickets, tickets_data, order)
    IN  [error |-> saved.error, orders |-> orders \cup {order},
         tickets |-> saved.tickets]

\* OrderSerializer.create: an error leaves transaction.atomic() as an
\* exception, and the order and tickets written so far are rolled back.
OrderSerializer_create(user, tickets_data, created_at) ==
    LET order == NewOrder(user, created_at)
        saved == create_tickets(tickets, tickets_data, order)
    IN  IF saved.error # OK
        THEN [error |-> saved.error, orders |-> orders, tickets |-> tickets]
        ELSE [error |-> OK, orders |-> orders \cup {order},
              tickets |-> saved.tickets]

\* OrderOutcome with allow_empty left at its default, True.
OrderOutcome_allow_empty(user, tickets_data, generated, validated_at, created_at) ==
    LET items == tickets_field_errors(tickets_data, generated)
        created == OrderSerializer_create(user, tickets_data, created_at)
    IN  IF \E i \in DOMAIN items : items[i] # OK
        THEN ItemsResponse(400, "tickets", items)
        ELSE IF OrderSerializer_validate(tickets_data, validated_at) # OK
        THEN Response(400, "order")
        ELSE IF created.error # OK
        THEN Response(500, created.error)
        ELSE Response(201, OK)

\* The response to POST /orders/ by user with the payload tickets_data,
\* validated at hour validated_at and inserted at hour created_at.
\* allow_empty=False rejects an empty list; 400 is a rest_framework
\* ValidationError of the serializer, 500 the django ValidationError that
\* full_clean() raises inside create().
OrderOutcome(user, tickets_data, generated, validated_at, created_at) ==
    LET items == tickets_field_errors(tickets_data, generated)
        created == OrderSerializer_create(user, tickets_data, created_at)
    IN  IF tickets_data = << >>
        THEN Response(400, "tickets")
        ELSE IF \E i \in DOMAIN items : items[i] # OK
        THEN ItemsResponse(400, "tickets", items)
        ELSE IF OrderSerializer_validate(tickets_data, validated_at) # OK
        THEN Response(400, "order")
        ELSE IF created.error # OK
        THEN Response(500, created.error)
        ELSE Response(201, OK)

\* The responses POST /orders/ can have in this state.
OrderOutcomes(user, tickets_data, validated_at, created_at) ==
    { OrderOutcome(user, tickets_data, generated, validated_at, created_at) :
        generated \in GeneratedValidators }

\* get_queryset without filter(user=self.request.user).
OrderViewSet_get_queryset_all(user) == orders

\* OrderViewSet.get_queryset
OrderViewSet_get_queryset(user) == { o \in orders : o.user = user }

\* GET /orders/ by user: the orders of the queryset (all pages).
OrderViewSet_list(user) ==
    [status |-> 200, orders |-> OrderViewSet_get_queryset(user)]

\* GET /orders/pk/ by user: get_object() looks pk up in the queryset and
\* answers 404 when it is not there.
OrderViewSet_retrieve(user, pk) ==
    LET found == { o \in OrderViewSet_get_queryset(user) : o.id = pk }
    IN  IF found = {}
        THEN [status |-> 404, orders |-> {}]
        ELSE [status |-> 200, orders |-> found]

\* The rows of FlightViewSet.queryset before they are grouped: the flight,
\* joined (LEFT OUTER JOIN) with each of its tickets, or with NULL (0) when it
\* has none.
FlightTicketRows(f) ==
    LET joined == { t.id : t \in { u \in tickets : u.flight = f.id } }
    IN  IF joined = {} THEN {0} ELSE joined

\* Count("tickets") as COUNT(*): the rows of the group.
Count_rows(f) == Cardinality(FlightTicketRows(f))

\* Count("tickets"): the rows of the group whose ticket is not NULL.
Count(f) == Cardinality(FlightTicketRows(f) \ {0})

\* The tickets_available annotation of FlightViewSet.queryset
tickets_available(f) ==
    airplane_rows[f.airplane] * airplane_seats_in_row[f.airplane] - Count(f)

\* The ticket items and the payloads of a create-order request.
TicketData ==
    [row : SeatNumbers, seat : SeatNumbers, flight : {f.id : f \in flights}]
OrderData == UNION { [1 .. n -> TicketData] : n \in OrderSizes }

\* The payloads of row 1: seat 1 exists on both airplanes, seat 2 on
\* airplane 2 only.
BookingTicketData ==
    [row : {1}, seat : {1, 2}, flight : {f.id : f \in flights}]
BookingData == UNION { [1 .. n -> BookingTicketData] : n \in OrderSizes }

\* The authenticated users that send requests.
Users == {"alice", "bob"}

\* Two first flights, of airplane 1 (2 rows of 1 seat) and of airplane 2
\* (1 row of 2 seats), as Flight.objects.create stores them.
SampleFlights ==
    { [id |-> 1, route |-> 1, airplane |-> 1, departure_time |-> 0,
       arrival_time |-> 1],
      [id |-> 2, route |-> 2, airplane |-> 2, departure_time |-> 1 + REST_HOURS,
       arrival_time |-> 1 + MAX_GAP_HOURS] }

----------------------------------------------------------------------------
(* Operations *)

\* No request served yet.
NoResponse == Response(0, OK)

Init ==
    /\ routes = SampleRoutes
    /\ flights = {}
    /\ orders = {}
    /\ tickets = {}
    /\ now = 0
    /\ response = NoResponse
    /\ calls = << >>
    /\ records = SampleRecords
    /\ sequence = SampleSequence

\* POST /flights/ by an admin, with one of payloads: FlightViewSet.create
\* (the model serves requests until MaxFlights rows are stored)
CreateFlight(payloads) ==
    /\ Cardinality(flights) < MaxFlights
    /\ \E data \in payloads :
       \E outcome \in FlightOutcomes(data) :
          /\ response' = outcome
          /\ flights' = IF outcome.status = 201
                        THEN Flight_insert(data)
                        ELSE flights
    /\ UNCHANGED <<routes, orders, tickets, now, calls, records, sequence>>

Next == CreateFlight(FlightData)

Spec == Init /\ [][Next]_vars

\* The database with the sample flights and no order.
OrderInit ==
    /\ routes = SampleRoutes
    /\ flights = SampleFlights
    /\ orders = {}
    /\ tickets = {}
    /\ now = 0
    /\ response = NoResponse
    /\ calls = << >>
    /\ records = SampleRecords
    /\ sequence = SampleSequence

\* POST /orders/ by one of users, with one of payloads: OrderViewSet.create
\* and perform_create.  The insert happens one of delays hours after the
\* validation.  A 400 leaves before create() runs; otherwise the rows are
\* those create() leaves.
\* (the model serves requests until MaxOrders rows are stored)
CreateOrder(users, payloads, delays) ==
    /\ Cardinality(orders) < MaxOrders
    /\ \E user \in users, tickets_data \in payloads, delay \in delays :
          /\ now + delay <= MaxNow
          /\ \E outcome \in OrderOutcomes(user, tickets_data, now, now + delay) :
                LET created == OrderSerializer_create(user, tickets_data,
                                                      now + delay)
                IN  /\ response' = outcome
                    /\ orders' = IF outcome.status = 400
                                  THEN orders
                                  ELSE created.orders
                    /\ tickets' = IF outcome.status = 400
                                   THEN tickets
                                   ELSE created.tickets
                    /\ now' = IF outcome.status = 400
                              THEN now
                              ELSE now + delay
    /\ UNCHANGED <<routes, flights, calls, records, sequence>>

\* An hour passes.
Tick ==
    /\ now < MaxNow
    /\ now' = now + 1
    /\ UNCHANGED <<routes, flights, orders, tickets, response, calls, records, sequence>>

----------------------------------------------------------------------------
(* Concurrent create-flight requests: each query and the INSERT of a request
   is a step of its own, and no lock is held between them. *)

\* One stored flight of airplane 1, KRK - PMI, arriving at hour 1.
RaceFlights == { f \in SampleFlights : f.id = 1 }

\* The payloads of the concurrent requests: the route back, departing within
\* the rest of the stored flight, at its end, or at the end of the idle gap.
RaceFlightData ==
    [route : {2}, airplane : Airplanes,
     departure_time : {1, 1 + REST_HOURS, 1 + MAX_GAP_HOURS},
     arrival_time : {2 + MAX_GAP_HOURS + REST_HOURS}]

RaceInit ==
    /\ routes = SampleRoutes
    /\ flights = RaceFlights
    /\ orders = {}
    /\ tickets = {}
    /\ now = 0
    /\ response = NoResponse
    /\ calls = << >>
    /\ records = SampleRecords
    /\ sequence = SampleSequence

\* A request at a position of its handler, and a request answered.
FlightCall(data, pc) ==
    [data |-> data, pc |-> pc, status |-> 0, error |-> OK, flight |-> 0]
FlightCallDone(data, status, error, flight) ==
    [data |-> data, pc |-> "done", status |-> status, error |-> error,
     flight |-> flight]

\* A request arrives and FlightSerializer.is_valid() runs: the generated
\* uniqueness validator where there is one, then FlightSerializer.validate
\* with the previous flight its query returns now.
ValidateFlight ==
    /\ Len(calls) < MaxCalls
    /\ \E data \in RaceFlightData, generated \in GeneratedValidators :
       \E p \in previous_flight(data.airplane) :
          LET error == IF generated /\ unique_flight(data) # OK
                       THEN unique_flight(data)
                       ELSE FlightSerializer_validate(data, p)
          IN  calls' = Append(calls,
                              IF error # OK
                              THEN FlightCallDone(data, 400, error, 0)
                              ELSE FlightCall(data, "clean"))
    /\ UNCHANGED <<routes, flights, orders, tickets, now, response, records, sequence>>

\* Flight.save: full_clean() runs Flight.clean with the previous flight its
\* query returns now, then the uniqueness query.
CleanFlight ==
    /\ \E c \in DOMAIN calls :
          /\ calls[c].pc = "clean"
          /\ \E p \in previous_flight(calls[c].data.airplane) :
                LET error == Flight_full_clean(calls[c].data, p)
                IN  calls' = [calls EXCEPT ![c] =
                                 IF error # OK
                                 THEN FlightCallDone(@.data, 500, error, 0)
                                 ELSE FlightCall(@.data, "insert")]
    /\ UNCHANGED <<routes, flights, orders, tickets, now, response, records, sequence>>

\* Flight.save: super().save() sends the INSERT.
InsertFlight ==
    /\ \E c \in DOMAIN calls :
          /\ calls[c].pc = "insert"
          /\ LET inserted == Flight_db_insert(calls[c].data)
             IN  /\ flights' = inserted.flights
                 /\ calls' = [calls EXCEPT ![c] =
                                  IF inserted.error # OK
                                  THEN FlightCallDone(@.data, 500,
                                                      inserted.error, 0)
                                  ELSE FlightCallDone(
                                           @.data, 201, OK,
                                           NewFlight(@.data).id)]
    /\ UNCHANGED <<routes, orders, tickets, now, response, records, sequence>>

RaceNext == ValidateFlight \/ CleanFlight \/ InsertFlight

RaceSpec == RaceInit /\ [][RaceNext]_vars

----------------------------------------------------------------------------
(* Concurrent create-order requests: each query and each INSERT of a request
   is a step of its own.  The rows a request writes inside transaction.atomic()
   are its own until it commits; the stored orders and tickets are the
   committed rows. *)

\* The payloads of the concurrent requests: one or two seats of flight 2.
RaceTicketData == [row : {1}, seat : {1, 2}, flight : {2}]
RaceOrderData ==
    UNION { [1 .. n -> RaceTicketData] : n \in OrderSizes \ {0} }

\* A request at a position of its handler: the Order row and the Ticket rows
\* it has written, and the number of items it has saved.
OrderCall(user, tickets_data, pc, order, saved, k) ==
    [user |-> user, data |-> tickets_data, pc |-> pc, status |-> 0,
     error |-> OK, order |-> order, saved |-> saved, k |-> k]
\* A request answered; one that was rolled back keeps the rows it had written.
OrderCallDone(call, status, error) ==
    [call EXCEPT !.pc = "done", !.status = status, !.error = error]
\* The request is inside its transaction.
InTransaction(call) == call.pc \in {"clean", "insert", "commit"}
\* The rows the queries of request c see: the committed rows and its own.
VisibleTickets(c) == tickets \cup calls[c].saved
\* The rows the key sequence of the tickets table has served.
AllocatedTickets == tickets \cup UNION { calls[d].saved : d \in DOMAIN calls }
\* The item request c saves next.
NextItem(c) == calls[c].data[calls[c].k + 1]

\* The INSERT of a ticket without the index of unique_ticket.
Ticket_db_insert_no_index(c, item) == OK

\* The INSERT of a ticket by request c under the index of unique_ticket: the
\* database refuses a key that a committed row has ("integrity") and makes
\* the statement wait for the end of another transaction that has written
\* the key ("wait").
Ticket_db_insert(c, item) ==
    IF \E t \in tickets : SameSeat(t, item)
    THEN "integrity"
    ELSE IF \E d \in DOMAIN calls :
               /\ d # c
               /\ InTransaction(calls[d])
               /\ \E t \in calls[d].saved : SameSeat(t, item)
         THEN "wait"
         ELSE OK

\* A request arrives and OrderSerializer.is_valid() runs, against the
\* committed rows.
ValidateOrder ==
    /\ Len(calls) < MaxCalls
    /\ \E user \in {"alice"}, tickets_data \in RaceOrderData,
          generated \in GeneratedValidators :
          LET items == tickets_field_errors(tickets_data, generated)
              error == IF \E i \in DOMAIN items : items[i] # OK
                       THEN "tickets"
                       ELSE OrderSerializer_validate(tickets_data, now)
              call == OrderCall(user, tickets_data, "begin", NoOrder, {}, 0)
          IN  calls' = Append(calls,
                              IF error # OK
                              THEN OrderCallDone(call, 400, error)
                              ELSE call)
    /\ UNCHANGED <<routes, flights, orders, tickets, now, response, records, sequence>>

\* OrderSerializer.create: transaction.atomic() begins and
\* Order.objects.create inserts the order; the key sequence gives every
\* request a key of its own.
BeginOrder ==
    /\ \E c \in DOMAIN calls :
          /\ calls[c].pc = "begin"
          /\ calls' = [calls EXCEPT ![c] =
                           OrderCall(@.user, @.data, "clean",
                                     [NewOrder(@.user, now) EXCEPT !.id = c],
                                     {}, 0)]
    /\ UNCHANGED <<routes, flights, orders, tickets, now, response, records, sequence>>

\* Ticket.save of the next item: full_clean().  Its error leaves
\* transaction.atomic(), which rolls the request back.
CleanTicket ==
    /\ \E c \in DOMAIN calls :
          /\ calls[c].pc = "clean"
          /\ LET error == Ticket_full_clean(VisibleTickets(c), NextItem(c),
                                            calls[c].order.created_at)
             IN  calls' = [calls EXCEPT ![c] =
                              IF error # OK
                              THEN OrderCallDone(@, 500, error)
                              ELSE [@ EXCEPT !.pc = "insert"]]
    /\ UNCHANGED <<routes, flights, orders, tickets, now, response, records, sequence>>

\* Ticket.save of the next item: super().save() sends the INSERT.  An
\* IntegrityError rolls the request back.
InsertTicket ==
    /\ \E c \in DOMAIN calls :
          /\ calls[c].pc = "insert"
          /\ LET inserted == Ticket_db_insert(c, NextItem(c))
                 row == NewTicket(AllocatedTickets, NextItem(c), calls[c].order)
             IN  /\ inserted # "wait"
                 /\ calls' = [calls EXCEPT ![c] =
                                  IF inserted # OK
                                  THEN OrderCallDone(@, 500, inserted)
                                  ELSE [@ EXCEPT
                                          !.saved = @ \cup {row},
                                          !.k = @ + 1,
                                          !.pc = IF calls[c].k + 1
                                                      = Len(calls[c].data)
                                                 THEN "commit"
                                                 ELSE "clean"]]
    /\ UNCHANGED <<routes, flights, orders, tickets, now, response, records, sequence>>

\* The database ends the wait of an INSERT with an error (a deadlock or a
\* lock timeout), which rolls the request back.
AbortOrder ==
    /\ \E c \in DOMAIN calls :
          /\ calls[c].pc = "insert"
          /\ Ticket_db_insert(c, NextItem(c)) = "wait"
          /\ calls' = [calls EXCEPT ![c] = OrderCallDone(@, 500, "deadlock")]
    /\ UNCHANGED <<routes, flights, orders, tickets, now, response, records, sequence>>

\* transaction.atomic() ends without an error: the rows are committed.
CommitOrder ==
    /\ \E c \in DOMAIN calls :
          /\ calls[c].pc = "commit"
          /\ orders' = orders \cup {calls[c].order}
          /\ tickets' = tickets \cup calls[c].saved
          /\ calls' = [calls EXCEPT ![c] = OrderCallDone(@, 201, OK)]
    /\ UNCHANGED <<routes, flights, now, response, records, sequence>>

OrderRaceNext ==
    \/ ValidateOrder \/ BeginOrder \/ CleanTicket \/ InsertTicket
    \/ AbortOrder \/ CommitOrder

OrderRaceSpec == OrderInit /\ [][OrderRaceNext]_vars

----------------------------------------------------------------------------
(* Order requests served one at a time *)

OrderNext == CreateOrder({"alice"}, OrderData, {0}) \/ Tick

OrderSpec == OrderInit /\ [][OrderNext]_vars

\* Two users book seats that exist on at least one of the sample flights; the
\* clock may advance between the validation and the insert of an order.
BookingNext == CreateOrder(Users, BookingData, {0, 1}) \/ Tick

BookingSpec == OrderInit /\ [][BookingNext]_vars

\* Orders that can fill the sample flights: every seat of the two airplanes.
SeatsTicketData == [row : {1, 2}, seat : {1, 2}, flight : {f.id : f \in flights}]
SeatsData == UNION { [1 .. n -> SeatsTicketData] : n \in {1, 2} }

SeatsNext == CreateOrder({"alice"}, SeatsData, {0}) \/ Tick

SeatsSpec == OrderInit /\ [][SeatsNext]_vars

\* Orders of one user for seats of row 1, inserted in the hour of their
\* validation or in the next one.
CutoffNext == CreateOrder({"alice"}, BookingData, {0, 1}) \/ Tick

CutoffSpec == OrderInit /\ [][CutoffNext]_vars

----------------------------------------------------------------------------
(* Authentication and permissions in front of the view sets
   (airport/views.py): APIView.initial() checks the permission classes of the
   view before the handler of the action runs. *)

\* request.user: nobody, or a user who may be staff.
Anonymous == [name |-> "", is_authenticated |-> FALSE, is_staff |-> FALSE]
User(name, is_staff) ==
    [name |-> name, is_authenticated |-> TRUE, is_staff |-> is_staff]
Principals == {Anonymous, User("alice", FALSE), User("root", TRUE)}

\* The view sets the router registers, named after their models.
Views == NamedResources \cup {"Route", "Flight", "Order"}

\* The actions of CreateModelMixin, RetrieveModelMixin and ListModelMixin.
Actions == {"list", "retrieve", "create"}

\* The actions ModelViewSet has besides: UpdateModelMixin, DestroyModelMixin.
WriteActions == {"update", "partial_update", "destroy"}

\* The HTTP method the router maps to an action.
MethodOf(action) ==
    CASE action \in {"list", "retrieve"} -> "GET"
      [] action = "create" -> "POST"
      [] action = "update" -> "PUT"
      [] action = "partial_update" -> "PATCH"
      [] action = "destroy" -> "DELETE"

\* Every view set a ModelViewSet.
ViewActions_all(view) == Actions \cup WriteActions

\* The actions a view set has: CrewViewSet is a ModelViewSet, the others mix
\* in create, retrieve and list only.
ViewActions(view) ==
    IF view = "Crew" THEN Actions \cup WriteActions ELSE Actions

SAFE_METHODS == {"GET", "HEAD", "OPTIONS"}

\* rest_framework.permissions.IsAuthenticated
IsAuthenticated(user, method) == user.is_authenticated

\* airport.permissions.IsAdminOrIfAuthenticatedReadOnly: reading requires a
\* login, writing a staff user.
IsAdminOrIfAuthenticatedReadOnly(user, method) ==
    \/ method \in SAFE_METHODS /\ user.is_authenticated
    \/ user.is_authenticated /\ user.is_staff

\* Every view set with the permission classes of OrderViewSet.
permission_classes_of_orders(view) == "IsAuthenticated"

\* permission_classes of each view set
permission_classes(view) ==
    IF view = "Order"
    THEN "IsAuthenticated"
    ELSE "IsAdminOrIfAuthenticatedReadOnly"

\* APIView.check_permissions: a refused request that carries no login is
\* answered 401 (NotAuthenticated), any other refused request 403
\* (PermissionDenied); 0 lets the request through to its handler.
check_permissions(user, view, method) ==
    LET has_permission ==
            IF permission_classes(view) = "IsAuthenticated"
            THEN IsAuthenticated(user, method)
            ELSE IsAdminOrIfAuthenticatedReadOnly(user, method)
    IN  IF has_permission THEN 0
        ELSE IF user.is_authenticated THEN 403
        ELSE 401

\* The rows a view set serves to user.
Queryset(user, view) ==
    CASE view \in NamedResources -> records[view]
      [] view = "Route" -> routes
      [] view = "Flight" -> flights
      [] view = "Order" -> OrderViewSet_get_queryset(user.name)

\* The models whose name field is declared unique=True.
UniqueNames == {"Airport", "AirplaneType", "Airplane"}

\* The names a create request can carry for a named resource.
Names(view) ==
    CASE view = "Airport" -> {"KRK", "WAW"}
      [] view = "Crew" -> {"John Doe"}
      [] view = "AirplaneType" -> {"Boeing", "Airbus"}
      [] view = "Airplane" -> {"BO1234", "AB0001"}

\* The payloads of a create-route request: airports are named by the name of
\* a stored Airport row.
RouteData ==
    [source : {"KRK"}, destination : {"KRK", "PMI", "WAW"}, distance : {1000}]

\* validate_route without its comparison.
validate_route_skip(source, destination) == OK

\* Route.validate_route
validate_route(source, destination) ==
    IF source = destination THEN "same_airport" ELSE OK

\* The unique_route constraint
unique_route(data) ==
    IF \E r \in routes : r.source = data.source
                          /\ r.destination = data.destination
    THEN "unique_route"
    ELSE OK

\* POST /routes/: the related fields look the airports up, the validator
\* derived from unique_route runs where the serializer has one, then
\* RouteSerializer.validate, then Route.save() with full_clean().
RouteOutcome(data, generated) ==
    LET airports == { r.name : r \in records["Airport"] }
    IN  IF ~ {data.source, data.destination} \subseteq airports
        THEN Response(400, "does_not_exist")
        ELSE IF generated /\ unique_route(data) # OK
        THEN Response(400, unique_route(data))
        ELSE IF validate_route(data.source, data.destination) # OK
        THEN Response(400, validate_route(data.source, data.destination))
        ELSE IF unique_route(data) # OK
        THEN Response(500, unique_route(data))
        ELSE Response(201, OK)

\* The Route row an accepted request inserts.
NewRoute(data) ==
    [id |-> Cardinality(routes) + 1, source |-> data.source,
     destination |-> data.destination, distance |-> data.distance]

\* The payloads of the create-flight and create-order requests served behind
\* the permission check.
AccessFlightData ==
    [route : {1}, airplane : {1}, departure_time : {0}, arrival_time : {0, 1}]
AccessOrderData ==
    UNION { [1 .. n -> [row : {1}, seat : {1}, flight : {f.id : f \in flights}]] :
              n \in {0, 1} }

\* A request the permission check refuses.
Refuse(user, view, action) ==
    /\ check_permissions(user, view, MethodOf(action)) # 0
    /\ response' = Response(check_permissions(user, view, MethodOf(action)),
                            "permission")
    /\ UNCHANGED <<routes, flights, orders, tickets, now, calls, records, sequence>>

\* GET /view/: ListModelMixin.list
List(user, view) ==
    /\ check_permissions(user, view, "GET") = 0
    /\ response' = Response(200, OK)
    /\ UNCHANGED <<routes, flights, orders, tickets, now, calls, records, sequence>>

\* GET /view/pk/: RetrieveModelMixin.retrieve
Retrieve(user, view, pk) ==
    /\ check_permissions(user, view, "GET") = 0
    /\ response' = IF \E r \in Queryset(user, view) : r.id = pk
                   THEN Response(200, OK)
                   ELSE Response(404, "not_found")
    /\ UNCHANGED <<routes, flights, orders, tickets, now, calls, records, sequence>>

\* POST /airports/, /crew/, /airplane-types/, /airplanes/:
\* CreateModelMixin.create; the UniqueValidator of a unique name answers 400.
\* (the model serves requests until MaxRecords rows are added)
CreateRecord(user, view) ==
    /\ check_permissions(user, view, "POST") = 0
    /\ sequence[view] < SampleSequence[view] + MaxRecords
    /\ \E name \in Names(view) :
          IF view \in UniqueNames /\ \E r \in records[view] : r.name = name
          THEN /\ response' = Response(400, "unique")
               /\ UNCHANGED <<records, sequence>>
          ELSE /\ response' = Response(201, OK)
               /\ sequence' = [sequence EXCEPT ![view] = @ + 1]
               /\ records' =
                    [records EXCEPT ![view] =
                        @ \cup {[id |-> sequence[view] + 1, name |-> name]}]
    /\ UNCHANGED <<routes, flights, orders, tickets, now, calls>>

\* POST /routes/ by user, with one of payloads: RouteViewSet.create
CreateRoute(user, payloads) ==
    /\ check_permissions(user, "Route", "POST") = 0
    /\ \E data \in payloads, generated \in GeneratedValidators :
          LET outcome == RouteOutcome(data, generated)
          IN  /\ response' = outcome
              /\ routes' = IF outcome.status = 201
                           THEN routes \cup {NewRoute(data)}
                           ELSE routes
    /\ UNCHANGED <<flights, orders, tickets, now, calls, records, sequence>>

\* A request to the API: the permission check, then the handler of the
\* action.
Request(user, view, action) ==
    \/ Refuse(user, view, action)
    \/ action = "list" /\ List(user, view)
    \/ action = "retrieve" /\ \E pk \in {1, 2} : Retrieve(user, view, pk)
    \/ action = "create" /\ view \in NamedResources /\ CreateRecord(user, view)
    \/ action = "create" /\ view = "Route"
       /\ CreateRoute(user, RouteData)
    \/ /\ action = "create" /\ view = "Flight"
       /\ check_permissions(user, view, "POST") = 0
       /\ CreateFlight(AccessFlightData)
    \/ /\ action = "create" /\ view = "Order"
       /\ check_permissions(user, view, "POST") = 0
       /\ CreateOrder({user.name}, AccessOrderData, {0})

AccessNext ==
    \E user \in Principals, view \in Views, action \in Actions :
        Request(user, view, action)

AccessSpec == Init /\ [][AccessNext]_vars

\* Create-route requests between the airports, of any distance an
\* IntegerField takes.
RouteDistances == {0 - 1, 0, 1}
RouteRequests ==
    [source : {"KRK", "WAW"}, destination : {"KRK", "PMI"},
     distance : RouteDistances]

\* The database with the sample airports and no route.
RouteInit ==
    /\ routes = {}
    /\ flights = {}
    /\ orders = {}
    /\ tickets = {}
    /\ now = 0
    /\ response = NoResponse
    /\ calls = << >>
    /\ records = SampleRecords
    /\ sequence = SampleSequence

RouteNext ==
    \E user \in Principals :
        \/ CreateRoute(user, RouteRequests)
        \/ CreateRecord(user, "Airport")

RouteSpec == RouteInit /\ [][RouteNext]_vars

\* The name a PUT or PATCH request carries.
UpdateNames == {"Jane Roe"}

\* PUT, PATCH or DELETE /view/pk/ by user: the permission check comes first;
\* a view set without the action answers 405; get_object() answers 404 when
\* the row is not there; perform_update writes the name over the row and
\* perform_destroy deletes it.  The answer and the records it leaves.
ModifyOutcome(user, view, action, pk, name) ==
    LET denied == check_permissions(user, view, MethodOf(action))
        rows == IF view \in NamedResources THEN records[view] ELSE {}
        found == { r \in rows : r.id = pk }
        Answer(status, error, left) ==
            [status |-> status, error |-> error, records |-> left]
    IN  IF denied # 0 THEN Answer(denied, "permission", records)
        ELSE IF action \notin ViewActions(view)
        THEN Answer(405, "method_not_allowed", records)
        ELSE IF found = {} THEN Answer(404, "not_found", records)
        ELSE IF action = "destroy"
        THEN Answer(204, OK, [records EXCEPT ![view] = @ \ found])
        ELSE Answer(200, OK,
                    [records EXCEPT ![view] =
                        (@ \ found) \cup {[id |-> pk, name |-> name]}])

\* A PUT, PATCH or DELETE request to the API.
Modify(user, view, action, pk) ==
    /\ \E name \in UpdateNames :
          LET outcome == ModifyOutcome(user, view, action, pk, name)
          IN  /\ response' = Response(outcome.status, outcome.error)
              /\ records' = outcome.records
    /\ UNCHANGED <<routes, flights, orders, tickets, now, calls, sequence>>

MutationNext ==
    \/ AccessNext
    \/ \E user \in Principals, view \in Views, action \in WriteActions :
          Modify(user, view, action, 1)

MutationSpec == Init /\ [][MutationNext]_vars

----------------------------------------------------------------------------
(* Flight scheduling: properties *)

\* The flights of an airplane, and those of them with the latest arrival.
FlightsOf(airplane) == { f \in flights : f.airplane = airplane }
LatestOf(airplane) ==
    { f \in FlightsOf(airplane) :
        \A g \in FlightsOf(airplane) : g.arrival_time <= f.arrival_time }
SourceOf(data) == RouteById(data.route).source
DestinationOf(f) == RouteById(f.route).destination
Rejected(o) == o.status # 201
\* g was created right after f, on the same airplane.
Consecutive(f, g) ==
    /\ f \in flights /\ g \in flights
    /\ f.airplane = g.airplane /\ g.id = f.id + 1

\* C1: every stored flight departs strictly before it arrives, and a request
\* with departure_time >= arrival_time is rejected in every state.
C1_DepartureBeforeArrival ==
    /\ \A f \in flights : f.departure_time < f.arrival_time
    /\ \A data \in FlightData :
         data.departure_time >= data.arrival_time
             => \A o \in FlightOutcomes(data) : o.status = 400

\* A request was rejected for its time order while a flight was stored.
C1_Witness ==
    /\ response = Response(400, "time_order")
    /\ flights # {}

\* C2: with a previous flight, a candidate whose route source differs from
\* the previous destination is rejected whatever its times.
C2_ContinuityRejected ==
    \A data \in FlightData : \A p \in LatestOf(data.airplane) :
        SourceOf(data) # DestinationOf(p)
            => \A o \in FlightOutcomes(data) : o.status = 400

\* A request was rejected for its departure location.
C2_Witness ==
    /\ response = Response(400, "continuity")
    /\ Cardinality(flights) = 1

\* C3: a candidate departing less than 3 hours after the previous arrival is
\* rejected; one departing exactly 3 hours after it is not rejected for rest.
C3_RestRule ==
    \A data \in FlightData : \A p \in LatestOf(data.airplane) :
        /\ data.departure_time < p.arrival_time + REST_HOURS
               => \A o \in FlightOutcomes(data) : Rejected(o)
        /\ data.departure_time = p.arrival_time + REST_HOURS
               => \A o \in FlightOutcomes(data) : o.error # "rest"

\* A request was rejected for the rest rule, and the hour at which the rest
\* of the stored flight ends is one a request can carry.
C3_Witness ==
    /\ response = Response(400, "rest")
    /\ \E f \in flights : f.arrival_time + REST_HOURS \in DepartureTimes

\* C4: a candidate departing more than 24 hours after the previous arrival is
\* rejected; one departing exactly 24 hours after it is not rejected for the gap.
C4_IdleGapRule ==
    \A data \in FlightData : \A p \in LatestOf(data.airplane) :
        /\ data.departure_time > p.arrival_time + MAX_GAP_HOURS
               => \A o \in FlightOutcomes(data) : Rejected(o)
        /\ data.departure_time = p.arrival_time + MAX_GAP_HOURS
               => \A o \in FlightOutcomes(data) : o.error # "max_gap"

\* A request was rejected for the idle gap, and the hour 24 hours after the
\* stored flight's arrival is one a request can carry.
C4_Witness ==
    /\ response = Response(400, "max_gap")
    /\ \E f \in flights : f.arrival_time + MAX_GAP_HOURS \in DepartureTimes

\* C5: a candidate that continues the previous flight's route, departs within
\* [T+3h, T+24h] of its arrival T and arrives after departing is accepted.
C5_AcceptanceComplete ==
    \A data \in FlightData : \A p \in LatestOf(data.airplane) :
        ( /\ SourceOf(data) = DestinationOf(p)
          /\ data.departure_time >= p.arrival_time + REST_HOURS
          /\ data.departure_time <= p.arrival_time + MAX_GAP_HOURS
          /\ data.departure_time < data.arrival_time )
            => \A o \in FlightOutcomes(data) : o.status = 201

\* A second flight of an airplane was accepted at each end of the interval.
C5_Witness ==
    /\ response.status = 201
    /\ \E f, g \in flights :
          /\ Consecutive(f, g)
          /\ g.departure_time \in { f.arrival_time + REST_HOURS,
                                    f.arrival_time + MAX_GAP_HOURS }
          /\ DestinationOf(f) = RouteById(g.route).source

\* C6: for an airplane without flights a candidate is accepted exactly when it
\* departs before it arrives, whatever the other airplanes' flights are.
C6_FirstFlight ==
    \A data \in FlightData :
        FlightsOf(data.airplane) = {}
            => \A o \in FlightOutcomes(data) :
                  /\ o.status = 201 <=> data.departure_time < data.arrival_time
                  /\ Rejected(o) => o = Response(400, "time_order")

\* An airplane's first flight was accepted although it departs before the
\* other airplane's stored flight arrives, from another airport than that
\* flight's destination.
C6_Witness ==
    /\ response.status = 201
    /\ \E f, g \in flights :
          /\ f.airplane # g.airplane /\ g.id > f.id
          /\ g.departure_time < f.arrival_time
          /\ RouteById(g.route).source # DestinationOf(f)

\* C7: a candidate is validated against the flight of its own airplane with
\* the greatest arrival_time (against none when the airplane has no flight),
\* also when the candidate departs before that flight.
C7_PreviousIsLatestArrival ==
    \A data \in FlightData : \A o \in FlightOutcomes(data) :
        /\ FlightsOf(data.airplane) = {}
               => \E generated \in GeneratedValidators :
                     o = FlightOutcome(data, generated, NoFlight, NoFlight)
        /\ FlightsOf(data.airplane) # {}
               => \E p \in FlightsOf(data.airplane) :
                     /\ \A g \in FlightsOf(data.airplane) :
                            g.arrival_time <= p.arrival_time
                     /\ \E generated \in GeneratedValidators :
                            o = FlightOutcome(data, generated, p, p)
        /\ \A p \in LatestOf(data.airplane) :
               data.departure_time < p.arrival_time => o.status = 400

\* A request was rejected for departing before the arrival of the stored
\* flight: the lookup returned a flight that does not end before the
\* candidate departs.
C7_Witness ==
    /\ response = Response(400, "before_previous")
    /\ Cardinality(flights) = 1

\* The rules a candidate violates against the previous flight p.
Violates(rule, data, p) ==
    CASE rule = "time_order" -> data.departure_time >= data.arrival_time
      [] rule = "continuity" -> p # NoFlight /\ SourceOf(data) # DestinationOf(p)
      [] rule = "before_previous" ->
             p # NoFlight /\ data.departure_time < p.arrival_time
      [] rule = "rest" ->
             p # NoFlight /\ data.departure_time < p.arrival_time + REST_HOURS
      [] rule = "max_gap" ->
             p # NoFlight /\ data.departure_time > p.arrival_time + MAX_GAP_HOURS

\* The first rule of the sequence order that the candidate violates, or OK.
RECURSIVE FirstViolated(_, _, _)
FirstViolated(order, data, p) ==
    IF order = << >>
    THEN OK
    ELSE IF Violates(Head(order), data, p)
         THEN Head(order)
         ELSE FirstViolated(Tail(order), data, p)

\* The previous flights of the query, stated for the properties.
PreviousOf(airplane) ==
    IF FlightsOf(airplane) = {} THEN {NoFlight} ELSE LatestOf(airplane)


\* The candidate repeats the (airplane, departure_time) of a stored flight.
RepeatsDeparture(data) ==
    \E f \in FlightsOf(data.airplane) :
        f.departure_time = data.departure_time

\* C8 as stated: the error reported is the first violated rule in the order
\* 1, 2a, 2b, 2c, 2d (the uniqueness error of a candidate that repeats a stored
\* flight's (airplane, departure_time) apart).
C8_OrderAsStated ==
    \A data \in FlightData : \A o \in FlightOutcomes(data) :
        \E p \in PreviousOf(data.airplane) :
            \/ o.error = FirstViolated(
                   <<"time_order", "continuity", "before_previous", "rest",
                     "max_gap">>, data, p)
            \/ o.error = "unique_flight" /\ RepeatsDeparture(data)

\* C8 amended: the error reported is the first violated rule in the order
\* 2a, 1, 2b, 2c, 2d; only a candidate that repeats the (airplane,
\* departure_time) of a stored flight can get the uniqueness error instead.
C8_OrderOfRules ==
    \A data \in FlightData : \A o \in FlightOutcomes(data) :
        \E p \in PreviousOf(data.airplane) :
            \/ o.error = FirstViolated(
                   <<"continuity", "time_order", "before_previous", "rest",
                     "max_gap">>, data, p)
            \/ o.error = "unique_flight" /\ RepeatsDeparture(data)

\* A request was rejected for its departure location while the only stored
\* flight arrives after every hour a request can depart at: the candidate
\* also violated rule 2b.
C8_Witness ==
    /\ response = Response(400, "continuity")
    /\ \E f \in flights :
          /\ flights = {f}
          /\ \A t \in DepartureTimes : t < f.arrival_time

\* C9: a step leaves every stored flight as it is; a rejected request stores
\* nothing and an accepted one stores exactly one more flight.
C9_FrameOfCreate ==
    [][ /\ flights \subseteq flights'
        /\ response'.status # 201 => flights' = flights
        /\ response'.status = 201
               => /\ Cardinality(flights') = Cardinality(flights) + 1
                  /\ \E f \in flights' : flights' = flights \cup {f} ]_vars

\* A flight was accepted after the flight it was validated against, and
\* both are stored.
C9_Witness ==
    /\ response.status = 201
    /\ \E f, g \in flights :
          /\ Consecutive(f, g)
          /\ g.departure_time >= f.arrival_time + REST_HOURS

----------------------------------------------------------------------------
(* Ticket booking: properties *)

RowsOf(fid) == airplane_rows[FlightById(fid).airplane]
SeatsInRowOf(fid) == airplane_seats_in_row[FlightById(fid).airplane]
RowInRange(t) == 1 <= t.row /\ t.row <= RowsOf(t.flight)
SeatInRange(t) == 1 <= t.seat /\ t.seat <= SeatsInRowOf(t.flight)
\* The responses POST /orders/ with this payload can have in this state.
OrderResponses(tickets_data) == OrderOutcomes("alice", tickets_data, now, now)

\* C10: every stored ticket has its row within 1..rows and its seat within
\* 1..seats_in_row of its flight's airplane; an order with a ticket outside
\* either range is rejected with status 400, and the error of each such
\* ticket is keyed by a field that is out of range.
C10_TicketInSeatRange ==
    /\ \A t \in tickets : RowInRange(t) /\ SeatInRange(t)
    /\ \A tickets_data \in OrderData :
         (\E i \in DOMAIN tickets_data :
              ~(RowInRange(tickets_data[i]) /\ SeatInRange(tickets_data[i])))
            => \A r \in OrderResponses(tickets_data) :
                 /\ r.status = 400
                 /\ \A i \in DOMAIN tickets_data :
                      /\ r.items[i] = "row" => ~RowInRange(tickets_data[i])
                      /\ r.items[i] = "seat" => ~SeatInRange(tickets_data[i])
                      /\ r.items[i] = OK
                           => RowInRange(tickets_data[i])
                              /\ SeatInRange(tickets_data[i])

\* An order was rejected for the seat of its second ticket while tickets of
\* an earlier order are stored.
C10_Witness ==
    /\ response.status = 400
    /\ response.items = <<OK, "seat">>
    /\ tickets # {}

\* A stored ticket occupies the seat the item asks for.
Taken(item) == \E t \in tickets : SameSeat(t, item)
\* The responses POST /orders/ by user can have when the order is validated
\* in this state and inserted delay hours later.
BookingResponses(user, tickets_data, delay) ==
    OrderOutcomes(user, tickets_data, now, now + delay)
\* The hours that can pass between the validation and the insert.
Delays == {0, 1}

\* C11: no two stored tickets share (flight, row, seat); a request with an
\* item for a taken seat is rejected, and an item is never rejected as a
\* duplicate because its (row, seat) is taken on another flight only.
C11_UniqueSeat ==
    /\ \A t, u \in tickets : SameSeat(t, u) => t = u
    /\ \A user \in Users, tickets_data \in BookingData, delay \in Delays :
         \A r \in BookingResponses(user, tickets_data, delay) :
            /\ (\E i \in DOMAIN tickets_data : Taken(tickets_data[i]))
                   => Rejected(r)
            /\ ( /\ Len(tickets_data) = 1
                 /\ ~Taken(tickets_data[1]) )
                   => r.error # "unique_ticket" /\ r.items # <<"unique_ticket">>

\* The same (row, seat) is stored for both flights, and a request for one of
\* the two was rejected as a duplicate.
C11_Witness ==
    /\ \/ response.error = "unique_ticket"
       \/ \E i \in DOMAIN response.items : response.items[i] = "unique_ticket"
    /\ \E t, u \in tickets :
          t.flight # u.flight /\ t.row = u.row /\ t.seat = u.seat

\* The Order row with primary key oid.
OrderById(oid) == CHOOSE o \in orders : o.id = oid
\* The departure time of the flight the item asks a seat of.
DepartureOf(item) == FlightById(item.flight).departure_time
\* Nothing but the booking cutoff can reject the payload: its seats exist, are
\* free, and differ from one another.
Bookable(tickets_data) ==
    /\ tickets_data # << >>
    /\ \A i \in DOMAIN tickets_data :
          /\ RowInRange(tickets_data[i]) /\ SeatInRange(tickets_data[i])
          /\ ~Taken(tickets_data[i])
    /\ \A i, j \in DOMAIN tickets_data :
          SameSeat(tickets_data[i], tickets_data[j]) => i = j

\* C12: every stored ticket belongs to an order created no later than its
\* flight departs; an order submitted strictly after the departure of the
\* flight of one of its tickets is rejected with status 400; an order
\* submitted at the departure time itself passes the cutoff of the
\* validation, and is accepted when it is inserted at that time.
C12_BookingCutoff ==
    /\ \A t \in tickets :
          /\ \E o \in orders : o.id = t.order
          /\ OrderById(t.order).created_at <= DepartureOf(t)
    /\ \A user \in Users, tickets_data \in BookingData :
          /\ (\E i \in DOMAIN tickets_data : now > DepartureOf(tickets_data[i]))
                => \A delay \in Delays :
                     \A r \in BookingResponses(user, tickets_data, delay) :
                        r.status = 400
          /\ ( /\ Bookable(tickets_data)
               /\ \A i \in DOMAIN tickets_data : now <= DepartureOf(tickets_data[i])
               /\ \E i \in DOMAIN tickets_data : now = DepartureOf(tickets_data[i]) )
                => /\ \A r \in BookingResponses(user, tickets_data, 0) :
                        r.status = 201
                   /\ \A delay \in Delays :
                        \A r \in BookingResponses(user, tickets_data, delay) :
                           r.status # 400

\* A ticket booked at the hour its flight departs is stored, and a later
\* order was rejected for the cutoff.
C12_Witness ==
    /\ response = Response(400, "order")
    /\ \E t \in tickets :
          /\ \E o \in orders : o.id = t.order
          /\ OrderById(t.order).created_at = DepartureOf(t)

\* The tickets of the order with primary key oid.
TicketsOf(oid) == { t \in tickets : t.order = oid }
\* The rows create() leaves are the stored rows, one new order and one new
\* ticket of that order for each item of the payload.
AllStored(created, tickets_data) ==
    \E o \in created.orders \ orders :
        /\ created.orders = orders \cup {o}
        /\ tickets \subseteq created.tickets
        /\ Cardinality(created.tickets \ tickets) = Len(tickets_data)
        /\ \A t \in created.tickets \ tickets : t.order = o.id
        /\ \A i \in DOMAIN tickets_data :
              \E t \in created.tickets \ tickets : SameSeat(t, tickets_data[i])
\* In every state: no order is stored without a ticket and no ticket without
\* its order, and create() stores either all rows of a payload or none.
AllOrNothing ==
    /\ \A o \in orders : TicketsOf(o.id) # {}
    /\ \A t \in tickets : \E o \in orders : o.id = t.order
    /\ \A user \in Users, tickets_data \in BookingData, delay \in Delays :
          LET created == OrderSerializer_create(user, tickets_data, now + delay)
          IN  \/ created.error # OK /\ created.orders = orders
                                    /\ created.tickets = tickets
              \/ created.error = OK /\ AllStored(created, tickets_data)
\* A step that does not answer 201 leaves the orders and tickets as they
\* are; a step that does adds one order and at least one ticket, all of them
\* tickets of that order.
AtomicStep ==
    \/ orders' = orders /\ tickets' = tickets
    \/ /\ response'.status = 201
       /\ \E o \in orders' \ orders :
             /\ orders' = orders \cup {o}
             /\ tickets \subseteq tickets'
             /\ tickets' \ tickets # {}
             /\ \A t \in tickets' \ tickets : t.order = o.id

\* C13: an order is stored with all the tickets of its payload or not at all:
\* a failure at validation or at the save of any ticket leaves no order and
\* no ticket of the request behind.
C13_AtomicOrder == []AllOrNothing /\ [][AtomicStep]_vars

\* The save of a ticket failed on the uniqueness constraint while one order
\* with one ticket is stored, and these are the rows stored still.
C13_Witness ==
    /\ response = Response(500, "unique_ticket")
    /\ Cardinality(orders) = 1
    /\ Cardinality(tickets) = 1

\* The payload asks twice for one seat that exists and is free, of a flight
\* that has not departed.
TwiceTheSameSeat(tickets_data) ==
    /\ Len(tickets_data) = 2
    /\ SameSeat(tickets_data[1], tickets_data[2])
    /\ RowInRange(tickets_data[1]) /\ SeatInRange(tickets_data[1])
    /\ ~Taken(tickets_data[1])
    /\ now <= DepartureOf(tickets_data[1])

\* C14: an order with two tickets for the same free seat passes the
\* validation, its first ticket is saved, the save of its second ticket
\* raises the ValidationError of the uniqueness constraint, which no handler
\* catches, and create() leaves neither the order nor the first ticket.
C14_DuplicateInOrder ==
    \A user \in Users, tickets_data \in BookingData :
        TwiceTheSameSeat(tickets_data)
            => LET order == NewOrder(user, now)
                   first == create_tickets(tickets, <<tickets_data[1]>>, order)
                   both == create_tickets(tickets, tickets_data, order)
                   created == OrderSerializer_create(user, tickets_data, now)
               IN  /\ first.error = OK
                   /\ both.error = "unique_ticket"
                   /\ both.tickets = first.tickets
                   /\ created.orders = orders /\ created.tickets = tickets
                   /\ BookingResponses(user, tickets_data, 0)
                          = {Response(500, "unique_ticket")}

\* The request failed on the uniqueness constraint while no ticket was
\* stored: its payload named one seat twice, and nothing is stored after it.
C14_Witness ==
    /\ response = Response(500, "unique_ticket")
    /\ orders = {}
    /\ tickets = {}

\* The payload names one seat twice.
RepeatsSeat(tickets_data) ==
    \E i, j \in DOMAIN tickets_data :
        i # j /\ SameSeat(tickets_data[i], tickets_data[j])
\* A seat of the payload does not exist on the airplane of its flight.
OutOfRange(tickets_data) ==
    \E i \in DOMAIN tickets_data :
        ~(RowInRange(tickets_data[i]) /\ SeatInRange(tickets_data[i]))
\* A flight of the payload has departed at hour at.
DepartedAt(tickets_data, at) ==
    \E i \in DOMAIN tickets_data : at > DepartureOf(tickets_data[i])
\* No order without tickets and no ticket without its order is stored.
NoPartialData ==
    /\ \A o \in orders : TicketsOf(o.id) # {}
    /\ \A t \in tickets : \E o \in orders : o.id = t.order

\* C15 as stated: no request ends as an unhandled exception (every rejection
\* is a 400), and no rejected request leaves partial data behind.
C15_AllRejectionsAre400 ==
    /\ response.status \in {0, 201, 400}
    /\ NoPartialData

\* C15 amended: a rejection that the serializers detect (the flight rules, a
\* seat out of range, a flight departed when the order is validated, an
\* empty list) is a 400; a rejection that only save() detects ends as an
\* unhandled ValidationError (500), and it is a duplicate seat (within the
\* order, or stored already) or a flight that departed between the
\* validation and the insert; a rejected request leaves nothing behind.
C15_RejectionOutcomes ==
    /\ NoPartialData
    /\ \A data \in FlightData : \A o \in FlightOutcomes(data) :
          o.status \in {201, 400}
    /\ \A user \in Users, tickets_data \in BookingData, delay \in Delays :
          LET created == OrderSerializer_create(user, tickets_data, now + delay)
          IN  \A r \in BookingResponses(user, tickets_data, delay) :
                /\ r.status \in {201, 400, 500}
                /\ ( \/ tickets_data = << >>
                     \/ OutOfRange(tickets_data)
                     \/ DepartedAt(tickets_data, now) ) => r.status = 400
                /\ r.status = 500
                      => \/ /\ r.error = "unique_ticket"
                            /\ \/ RepeatsSeat(tickets_data)
                               \/ \E i \in DOMAIN tickets_data :
                                     Taken(tickets_data[i])
                         \/ /\ r.error = "order"
                            /\ DepartedAt(tickets_data, now + delay)
                /\ ( /\ RepeatsSeat(tickets_data)
                     /\ ~OutOfRange(tickets_data)
                     /\ ~DepartedAt(tickets_data, now)
                     /\ \A i \in DOMAIN tickets_data : ~Taken(tickets_data[i]) )
                      => r.status = 500
                /\ r.status = 500
                      => created.orders = orders /\ created.tickets = tickets

\* An order validated before its flight departed was inserted after, and
\* failed with the unhandled error of Ticket.clean; an earlier order is
\* stored whole.
C15_Witness ==
    /\ response = Response(500, "order")
    /\ orders # {}

\* C16: a request with an empty ticket list is answered 400 on its tickets
\* field, whoever sends it and whatever is stored, and no stored order is
\* without tickets.
C16_EmptyOrderRejected ==
    /\ \A user \in Users, delay \in Delays :
          BookingResponses(user, << >>, delay) = {Response(400, "tickets")}
    /\ \A o \in orders : TicketsOf(o.id) # {}

\* A request was rejected for its empty ticket list, and the one order stored
\* before it is the one stored after it.
C16_Witness ==
    /\ response = Response(400, "tickets")
    /\ Cardinality(orders) = 1

----------------------------------------------------------------------------
(* Concurrent requests: properties *)

\* The stored flight and the payload have the same (airplane, departure_time).
SameDeparture(f, data) ==
    f.airplane = data.airplane /\ f.departure_time = data.departure_time
\* The request passed the serializer and full_clean().
PassedValidation(call) ==
    call.pc = "insert" \/ call.status = 201 \/ call.error = "integrity"

\* C17: however the steps of concurrent create-flight requests interleave, no
\* two stored flights share (airplane, departure_time); a request that passed
\* the validation is stored, unless a stored flight has its (airplane,
\* departure_time): then the INSERT fails and the request stores nothing.
C17_FlightRace ==
    /\ \A f, g \in flights : SameDeparture(f, g) => f = g
    /\ \A c \in DOMAIN calls :
          (calls[c].pc = "done" /\ PassedValidation(calls[c]))
             => \/ /\ calls[c].status = 201
                   /\ \E f \in flights : /\ f.id = calls[c].flight
                                          /\ SameDeparture(f, calls[c].data)
                \/ /\ calls[c].status = 500
                   /\ calls[c].flight = 0
                   /\ \E d \in DOMAIN calls :
                         /\ d # c
                         /\ calls[d].status = 201
                         /\ calls[d].data.departure_time
                               = calls[c].data.departure_time
                         /\ calls[d].data.airplane = calls[c].data.airplane

\* Two requests for one airplane were both validated against the stored
\* flight and both stored: the second stored flight departs before the first
\* of them arrives, which no request validated after the first would pass.
C17_Witness ==
    \E c, d \in DOMAIN calls :
        /\ c # d
        /\ calls[c].status = 201 /\ calls[d].status = 201
        /\ calls[c].data.airplane = calls[d].data.airplane
        /\ \E f, g \in flights :
              /\ f.id = calls[c].flight /\ g.id = calls[d].flight
              /\ f.id < g.id
              /\ g.departure_time < f.arrival_time

\* Two payloads have an item for the same seat.
ShareSeat(data, other) ==
    \E i \in DOMAIN data, j \in DOMAIN other : SameSeat(data[i], other[j])
\* The order of the request is stored.
Persisted(call) == call.order \in orders

\* C18: however the steps of concurrent create-order requests interleave, no
\* two stored tickets share a seat; of two requests with an item for the same
\* seat at most one has its order stored; an order is stored with all the
\* tickets of its request, and a request that was not accepted has no order
\* and no ticket stored, whatever seats it had written.
C18_OrderRace ==
    /\ \A t, u \in tickets : SameSeat(t, u) => t = u
    /\ \A c, d \in DOMAIN calls :
          (c # d /\ ShareSeat(calls[c].data, calls[d].data))
             => ~(Persisted(calls[c]) /\ Persisted(calls[d]))
    /\ \A c \in DOMAIN calls :
          /\ Persisted(calls[c]) <=> calls[c].status = 201
          /\ Persisted(calls[c])
                => /\ calls[c].saved \subseteq tickets
                   /\ Cardinality(calls[c].saved) = Len(calls[c].data)
          /\ ~Persisted(calls[c])
                => \A t \in tickets : t.order # c
    /\ \A t \in tickets : \E o \in orders : o.id = t.order

\* Of two requests with an item for the same seat one was accepted, and the
\* other failed at the INSERT of that seat after it had written its ticket
\* for another seat, which is not stored.
C18_Witness ==
    \E c, d \in DOMAIN calls :
        /\ c # d
        /\ ShareSeat(calls[c].data, calls[d].data)
        /\ calls[c].status = 201
        /\ calls[d].status = 500 /\ calls[d].error = "integrity"
        /\ calls[d].saved # {}
        /\ calls[d].saved \cap tickets = {}

----------------------------------------------------------------------------
(* Access: properties *)

\* The primary keys an order can have.
OrderIds == 1 .. MaxOrders + 1
\* In every state: list and retrieve answer a user with exactly the orders
\* that user owns, and create() makes the requesting user the owner of the
\* order it stores.
ScopedToUser ==
    /\ \A user \in Users :
          /\ OrderViewSet_list(user).orders
                = { o \in orders : o.user = user }
          /\ \A pk \in OrderIds :
                LET answer == OrderViewSet_retrieve(user, pk)
                IN  /\ answer.status = 200
                          <=> \E o \in orders : o.id = pk /\ o.user = user
                    /\ \A o \in answer.orders : o.id = pk /\ o.user = user
    /\ \A user \in Users, tickets_data \in BookingData, delay \in Delays :
          \A o \in OrderSerializer_create(user, tickets_data,
                                           now + delay).orders \ orders :
              o.user = user
\* A step changes what at most one user sees, and only by one more order.
OneUserStep ==
    \A user \in Users :
        \/ OrderViewSet_list(user)' = OrderViewSet_list(user)
        \/ /\ \E o \in orders' \ orders :
                 /\ o.user = user
                 /\ OrderViewSet_list(user)'.orders
                       = OrderViewSet_list(user).orders \cup {o}
           /\ \A other \in Users \ {user} :
                 OrderViewSet_list(other)' = OrderViewSet_list(other)

\* C19: the order a request stores is owned by the user who sent it; list
\* and retrieve answer a user with that user's orders only; what a user sees
\* changes only by an order of that user.
C19_OrdersScoped == []ScopedToUser /\ [][OneUserStep]_vars

\* Both users have an order stored, and each sees only the own one.
C19_Witness ==
    /\ response.status = 201
    /\ \E o, p \in orders : o.user = "alice" /\ p.user = "bob"
    /\ OrderViewSet_list("alice").orders # orders
    /\ OrderViewSet_list("bob").orders # orders

\* The resources whose rows only an admin may create.
AdminResources ==
    {"Airport", "Route", "Crew", "AirplaneType", "Airplane", "Flight"}
\* The stored rows.
Stored == <<routes, flights, orders, tickets, records>>
\* What the permission check answers: nobody without a login passes it; a
\* logged-in user passes it for list and retrieve of every resource and for
\* the create of an order; for the create of the other resources a staff
\* user passes it and any other user is answered 403.
Gates ==
    /\ \A view \in Views, action \in Actions :
          check_permissions(Anonymous, view, MethodOf(action)) = 401
    /\ \A user \in Principals \ {Anonymous} :
          /\ \A view \in Views, action \in {"list", "retrieve"} :
                check_permissions(user, view, MethodOf(action)) = 0
          /\ check_permissions(user, "Order", "POST") = 0
          /\ \A view \in AdminResources :
                check_permissions(user, view, "POST")
                  = IF user.is_staff THEN 0 ELSE 403
\* What a request does: without a login it is answered 401, a create of an
\* admin resource by a user who is not staff is answered 403, and both leave
\* the stored rows alone, as list and retrieve do.
GatedStep ==
    /\ \A view \in Views, action \in Actions :
          Request(Anonymous, view, action) =>
              response'.status = 401 /\ UNCHANGED Stored
    /\ \A user \in Principals \ {Anonymous} :
          /\ ~ user.is_staff =>
                \A view \in AdminResources :
                    Request(user, view, "create") =>
                        response'.status = 403 /\ UNCHANGED Stored
          /\ \A view \in Views, action \in {"list", "retrieve"} :
                Request(user, view, action) => UNCHANGED Stored

\* C20: a request without a login is refused with 401 and changes nothing;
\* a logged-in user who is not an admin may list and retrieve, and the
\* create of an Airport, Route, Crew, AirplaneType, Airplane or Flight by
\* that user is refused with 403 and stores nothing; an admin may create
\* them; the create of an Order needs only a login.
C20_RoleGating == []Gates /\ [][GatedStep]_vars

\* An admin has created a row of each admin resource, the user who is not
\* an admin has an order stored, and the last request was refused with 403.
C20_Witness ==
    /\ \A view \in NamedResources : records[view] # SampleRecords[view]
    /\ routes # SampleRoutes
    /\ flights # {}
    /\ \E o \in orders : o.user = "alice"
    /\ response.status = 403

----------------------------------------------------------------------------
(* Immutable records: properties *)

\* The resources no request changes or deletes a row of.
Immutable ==
    {"Airport", "Route", "AirplaneType", "Airplane", "Flight", "Order"}
\* A row of Crew is stored under primary key pk.
CrewStored(pk) == \E r \in records["Crew"] : r.id = pk
\* C21 as stated: every update, partial-update and delete request to an
\* immutable resource is answered 405 and leaves the records alone.
C21_Always405 ==
    \A user \in Principals, view \in Immutable, action \in WriteActions :
        \A name \in UpdateNames :
            LET outcome == ModifyOutcome(user, view, action, 1, name)
            IN  outcome.status = 405 /\ outcome.records = records
\* What a PUT, PATCH or DELETE request is answered: to an immutable resource
\* 405 from whoever passes the permission check (a staff user; any logged-in
\* user for Order), 401 without a login and 403 otherwise, the records left
\* alone; to Crew, from a staff user and for a stored row, the row is
\* rewritten or deleted.
RefusedOrCrew ==
    \A user \in Principals, action \in WriteActions, name \in UpdateNames :
        /\ \A view \in Immutable :
              LET outcome == ModifyOutcome(user, view, action, 1, name)
              IN  /\ outcome.records = records
                  /\ outcome.status =
                       IF ~ user.is_authenticated THEN 401
                       ELSE IF user.is_staff \/ view = "Order" THEN 405
                       ELSE 403
        /\ LET outcome == ModifyOutcome(user, "Crew", action, 1, name)
           IN  (user.is_staff /\ CrewStored(1)) =>
                  /\ outcome.status = IF action = "destroy" THEN 204 ELSE 200
                  /\ outcome.records["Crew"] =
                       IF action = "destroy"
                       THEN { r \in records["Crew"] : r.id # 1 }
                       ELSE { r \in records["Crew"] : r.id # 1 }
                              \cup {[id |-> 1, name |-> name]}
\* A step keeps every row of an immutable resource as it is.
RowsKept ==
    /\ routes \subseteq routes'
    /\ flights \subseteq flights'
    /\ orders \subseteq orders'
    /\ \A view \in NamedResources \ {"Crew"} :
          records[view] \subseteq records'[view]

\* C21: an update, partial-update or delete request to Airport, Route,
\* AirplaneType, Airplane, Flight or Order is refused (405 once it has passed
\* the permission check, 401 or 403 before) and leaves the records alone;
\* the rows of these resources, an order's created_at with them, never
\* change and are never deleted; Crew accepts update and delete.
C21_Immutable == []RefusedOrCrew /\ [][RowsKept]_vars

\* A crew member was renamed by a request, with a flight and an order stored.
C21_Witness ==
    /\ \E r \in records["Crew"] : r.name \in UpdateNames
    /\ flights # {}
    /\ orders # {}
    /\ response.status = 200

----------------------------------------------------------------------------
(* Seats of a flight: properties *)

\* The tickets stored for flight f.
TicketsOfFlight(f) == { t \in tickets : t.flight = f.id }
\* The value shown is the capacity less the tickets stored.
SeatsShown ==
    \A f \in flights :
        tickets_available(f)
          = capacity(f.airplane) - Cardinality(TicketsOfFlight(f))
\* A step lowers the value of a flight by the tickets it stores for the
\* flight, and a request that is not answered 201 leaves it as it is.
SeatsStep ==
    \A f \in flights :
        /\ tickets_available(f)' =
             tickets_available(f)
               - Cardinality({ t \in tickets' \ tickets : t.flight = f.id })
        /\ tickets \subseteq tickets'
        /\ response'.status # 201 => tickets_available(f)' = tickets_available(f)

\* C22: the seats-available value of a flight is rows * seats_in_row of its
\* airplane less the number of tickets stored for it; every ticket stored
\* lowers it by one and a rejected order leaves it unchanged.
C22_SeatsAvailable == []SeatsShown /\ [][SeatsStep]_vars

\* One flight has tickets and shows fewer seats than its capacity, the other
\* has none and shows its capacity.
C22_Witness ==
    /\ response.status = 201
    /\ \E f, g \in flights :
          /\ TicketsOfFlight(f) # {}
          /\ tickets_available(f) < capacity(f.airplane)
          /\ TicketsOfFlight(g) = {}
          /\ tickets_available(g) = capacity(g.airplane)

----------------------------------------------------------------------------
(* Routes: properties *)

\* C23: every stored route has a source airport different from its
\* destination airport; a create-route request with source = destination is
\* answered 400 and stores nothing.
C23_RouteEndsDiffer ==
    /\ \A r \in routes : r.source # r.destination
    /\ \A data \in RouteRequests, generated \in GeneratedValidators :
          data.source = data.destination =>
              RouteOutcome(data, generated).status = 400

\* A route is stored and the last request, between one airport and itself,
\* was rejected.
C23_Witness ==
    /\ routes # {}
    /\ response = Response(400, "same_airport")

\* C24: every stored route has a positive distance; a create-route request
\* with distance <= 0 is rejected.
C24_PositiveDistance ==
    /\ \A r \in routes : r.distance > 0
    /\ \A data \in RouteRequests, generated \in GeneratedValidators :
          data.distance <= 0 => RouteOutcome(data, generated).status # 201

----------------------------------------------------------------------------
(* The schedule of an airplane: properties *)

\* g is the flight of f's airplane that arrives next after f.
AdjacentByArrival(f, g) ==
    /\ f.airplane = g.airplane
    /\ f.arrival_time < g.arrival_time
    /\ ~ \E h \in FlightsOf(f.airplane) :
           f.arrival_time < h.arrival_time /\ h.arrival_time < g.arrival_time

\* C25: no two flights of an airplane arrive at the same hour; of two flights
\* adjacent in the order by arrival_time, the later one leaves from the
\* earlier one's destination, between 3 and 24 hours after the earlier one's
\* arrival; no two flights of an airplane overlap in time.
C25_AdjacentFlights ==
    \A f, g \in flights :
        /\ (f # g /\ f.airplane = g.airplane) =>
              /\ f.arrival_time # g.arrival_time
              /\ \/ f.arrival_time <= g.departure_time
                 \/ g.arrival_time <= f.departure_time
        /\ AdjacentByArrival(f, g) =>
              /\ RouteById(g.route).source = DestinationOf(f)
              /\ g.departure_time >= f.arrival_time + REST_HOURS
              /\ g.departure_time <= f.arrival_time + MAX_GAP_HOURS

\* An airplane has two flights, the later one leaving at the last hour the
\* idle gap allows.
C25_Witness ==
    \E f, g \in flights :
        /\ AdjacentByArrival(f, g)
        /\ g.departure_time = f.arrival_time + MAX_GAP_HOURS

\* The flights of an airplane were created in the order of their arrivals,
\* and a candidate that departs before the airplane's latest arrival is
\* rejected.
CreatedInOrder ==
    /\ \A f, g \in flights :
          (f.airplane = g.airplane /\ f # g) =>
              (f.id < g.id <=> f.arrival_time < g.arrival_time)
    /\ \A data \in FlightData : \A p \in LatestOf(data.airplane) :
          data.departure_time < p.arrival_time =>
              \A o \in FlightOutcomes(data) : Rejected(o)
\* A flight a step stores departs at least 3 hours after, and arrives after,
\* the arrival of every flight its airplane had.
Appended ==
    \A g \in flights' \ flights : \A f \in FlightsOf(g.airplane) :
        /\ g.departure_time >= f.arrival_time + REST_HOURS
        /\ g.arrival_time > f.arrival_time

\* C26: the flights of an airplane are only appended: an accepted flight
\* departs at least 3 hours after, and arrives after, every arrival the
\* airplane already had, so the order of creation is the order by
\* arrival_time; a candidate departing before the airplane's latest arrival
\* is rejected, also when it overlaps no stored flight.
C26_AppendOnly == []CreatedInOrder /\ [][Appended]_vars

\* The only stored flight departs late enough for a whole flight and the
\* rest after it to fit before; a candidate that does so and would leave that
\* flight a valid successor was rejected for departing before its arrival.
C26_Witness ==
    /\ response = Response(400, "before_previous")
    /\ \E f \in flights :
          /\ flights = {f}
          /\ \E data \in FlightData :
                /\ data.airplane = f.airplane
                /\ data.departure_time < data.arrival_time
                /\ data.arrival_time + REST_HOURS <= f.departure_time
                /\ f.departure_time <= data.arrival_time + MAX_GAP_HOURS
                /\ RouteById(data.route).destination = RouteById(f.route).source
                /\ FlightOutcomes(data) = {Response(400, "before_previous")}

\* C27: a candidate that repeats the (airplane, departure_time) of a stored
\* flight departs before the airplane's latest arrival and fails the
\* scheduling rules of both validators, so no request is answered with the
\* failure of the unique_flight constraint at save(), and whether a request
\* is accepted never depends on the constraint.
C27_UniquenessNeverDecides ==
    \A data \in FlightData :
        /\ unique_flight(data) # OK =>
              /\ \A p \in LatestOf(data.airplane) :
                    data.departure_time < p.arrival_time
              /\ \A p \in previous_flight(data.airplane) :
                    /\ FlightSerializer_validate(data, p) # OK
                    /\ Flight_clean(data, p) # OK
        /\ \A o \in FlightOutcomes(data) :
              /\ o.status # 500
              /\ o.status = 201 <=>
                    \E p \in previous_flight(data.airplane) :
                        FlightSerializer_validate(data, p) = OK

\* A request that repeated the airplane and departure_time of the stored
\* flight, on a route that continues it, was rejected.
C27_Witness ==
    /\ response.status = 400
    /\ response.error \in {"before_previous", "unique_flight"}
    /\ \E f \in flights :
          /\ flights = {f}
          /\ \E data \in FlightData :
                /\ unique_flight(data) # OK
                /\ RouteById(data.route).source = DestinationOf(f)
                /\ data.departure_time < data.arrival_time
                /\ response \in FlightOutcomes(data)

----------------------------------------------------------------------------
(* Capacity of a flight: properties *)

\* tickets_data asks for a seat on flight f.
AsksFor(tickets_data, f) ==
    \E i \in DOMAIN tickets_data : tickets_data[i].flight = f.id

\* C28: of a flight whose airplane has at least one row and one seat in a
\* row, no more tickets are stored than rows * seats_in_row, the
\* seats-available value lies in 0 .. capacity, and when it is 0 every order
\* that asks for a seat on the flight is rejected.
C28_WithinCapacity ==
    \A f \in flights :
        (airplane_rows[f.airplane] >= 1
           /\ airplane_seats_in_row[f.airplane] >= 1) =>
            /\ Cardinality(TicketsOfFlight(f)) <= capacity(f.airplane)
            /\ tickets_available(f) \in 0 .. capacity(f.airplane)
            /\ tickets_available(f) = 0 =>
                  \A tickets_data \in SeatsData :
                      AsksFor(tickets_data, f) =>
                          \A o \in OrderOutcomes("alice", tickets_data, now, now) :
                              o.status # 201

\* A flight that can still be booked has no seat left, and the last request
\* was rejected for a seat that is taken.
C28_Witness ==
    /\ response.status # 201
    /\ response.error = "unique_ticket"
    /\ \E f \in flights :
          /\ tickets_available(f) = 0
          /\ now <= f.departure_time

\* C29: in every state and for every candidate, FlightSerializer.validate and
\* Flight.clean find the same previous flight and give the same verdict, the
\* same rule on rejection; no request passes the serializer and then fails
\* the scheduling checks at save().
C29_ValidatorsAgree ==
    \A data \in FlightData :
        /\ \A p1, p2 \in previous_flight(data.airplane) :
              /\ p1 = p2
              /\ FlightSerializer_validate(data, p1) = Flight_clean(data, p2)
        /\ \A o \in FlightOutcomes(data) : o.status # 500

\* A request was rejected by the serializer for the rest rule, which
\* Flight.clean names for the same candidates against the stored flight.
C29_Witness ==
    /\ response = Response(400, "rest")
    /\ Cardinality(flights) = 1
    /\ \E data \in FlightData : \E p \in previous_flight(data.airplane) :
          /\ p # NoFlight
          /\ FlightSerializer_validate(data, p) = "rest"
          /\ Flight_clean(data, p) = "rest"

----------------------------------------------------------------------------
(* The booking cutoff at the validation and at the save *)

\* The flight of an item of the payload departs at or after the hour of the
\* validation and before the hour of the insert.
DepartsBetween(tickets_data, validated_at, created_at) ==
    /\ \A i \in DOMAIN tickets_data : validated_at <= DepartureOf(tickets_data[i])
    /\ \E i \in DOMAIN tickets_data : DepartureOf(tickets_data[i]) < created_at
\* In every state: the stored tickets respect the cutoff, and a request
\* validated now and inserted delay hours later, with a departure between the
\* two, is checked twice: OrderSerializer.validate passes, the save of a ticket
\* fails in create(), and create() leaves the orders and tickets as they are.
CheckedTwice ==
    /\ \A t \in tickets :
          /\ \E o \in orders : o.id = t.order
          /\ OrderById(t.order).created_at <= DepartureOf(t)
    /\ \A tickets_data \in BookingData, delay \in Delays :
          DepartsBetween(tickets_data, now, now + delay)
             => LET created == OrderSerializer_create("alice", tickets_data,
                                                      now + delay)
                IN  /\ OrderSerializer_validate(tickets_data, now) = OK
                    /\ OrderSerializer_validate(tickets_data, now + delay) # OK
                    /\ created.error # OK
                    /\ created.orders = orders
                    /\ created.tickets = tickets
                    /\ \A r \in BookingResponses("alice", tickets_data, delay) :
                          /\ r.status # 201
                          /\ Bookable(tickets_data) => r = Response(500, "order")
\* A step whose save failed leaves the orders and tickets as they are.
RolledBack ==
    response'.status = 500 => orders' = orders /\ tickets' = tickets

\* C30: the cutoff is checked at the validation against the current time and
\* at the save of each ticket against the created_at of the order, assigned
\* at the insert; when a flight of the payload departs between the two, the
\* validation passes, the save of the ticket fails, no order and no ticket of
\* the request is stored, and every stored ticket belongs to an order created
\* no later than its flight departs.
C30_CutoffAtTwoInstants == []CheckedTwice /\ [][RolledBack]_vars

\* An order validated at the departure hour of flight 1 and inserted one hour
\* later failed at the save of its ticket, and the one order stored before is
\* all that is stored.
C30_Witness ==
    /\ response = Response(500, "order")
    /\ now = 1
    /\ Cardinality(orders) = 1
    /\ \A t \in tickets : OrderById(t.order).created_at = 0

====
